---------------------------- MODULE Spec2Model ----------------------------
(***************************************************************************)
(* A model of js-redis-registry (src/src/redis-registry.ts, class          *)
(* Registry): instances that mirror a redis hash in memory, persist local  *)
(* writes in the background and broadcast them over redis pub/sub.         *)
(*                                                                         *)
(* The redis server is modelled by its observable contract: a hash per     *)
(* key, requests that are processed some time after they are sent and      *)
(* answered some time after they are processed (every request of the       *)
(* registry travels on a connection of its own, so requests are not        *)
(* ordered among each other), and channels that hand a published message   *)
(* to every connection subscribed at that moment, in publication order.    *)
(***************************************************************************)
EXTENDS Naturals, Sequences, FiniteSets

(***************************************************************************)
(* Bounds of the model.                                                    *)
(***************************************************************************)
\* set, clear and pull calls that start a request, over all instances
MaxCalls == 2
\* subscriber connections opened by startMonitor, over all instances
MaxConns == 1
\* the same, in the specification with fairness (FairSpec)
MaxCallsLive == 1
MaxConnsLive == 1
\* the same, and the handles watch makes, in the specification with watches
MaxCallsWatch == 1
MaxConnsWatch == 1
MaxWatches == 2
\* calls and subscriber connections in the specification of the monitoring lifecycle
MaxCallsLifecycle == 1
MaxConnsLifecycle == 2
\* pull and clear calls in the specification of the resynchronisation
MaxCallsResync == 3
MaxCallsGet == 2
MaxCallsIsolation == 2
MaxConnsIsolation == 1
MaxCallsOverlap == 2

(***************************************************************************)
(* Inputs.                                                                 *)
(***************************************************************************)
Inst == {"A", "B"}
Keys == {"x", "y"}

\* A JavaScript value: its JSON text and, for an array or object, the
\* reference of the object ("prim" for a primitive, which has no identity).
\* "dec" is the reference of an object made by a decoder, which no caller
\* holds.
Val(ref, json) == [ref |-> ref, json |-> json]
Undefined == Val("prim", "undefined")
Null == Val("prim", "null")
Num1 == Val("prim", "1")
Zero == Val("prim", "0")
Fallback == Val("prim", "\"fallback\"")
Num2 == Val("prim", "2")
Arr(ref) == Val(ref, "[1,2]")

\* the values callers pass to set
Values == {Num1, Arr("r1"), Arr("r2")}

\* texts JSON.parse accepts, and a text it rejects
JsonPrimTexts == {"0", "1", "2", "null"}
JsonStructTexts == {"[1,2]"}
NotJson == "not-json"

ChannelConfigSet == "ConfigSet"
ChannelConfigClear == "ConfigClear"

VARIABLES
  keyspace,    \* keyspace[i]: the namespace of instance i
  store,       \* store[i]: the local key:value store, a function on the keys it has
  subscriber,  \* subscriber[i]: the id of the subscriber connection, 0 for null
  durable,     \* durable[keyConfig]: the redis hash, a function on the fields it has
  reqs,        \* hgetall / hset / hdel requests in flight, with their callbacks
  conns,       \* subscriber connections the server or the client still knows
  nextId,      \* the id of the next request
  nextConn,    \* the id of the next subscriber connection
  trace,       \* the last step: the reply or message it handled, then
               \* what it published and emitted, in order
  clean,       \* history: no failure, no missed broadcast, no write during a pull
  watches,     \* the handles watch has made, in the order of the calls
  bootstrapped \* history: the instances that have had a pull succeed

vars == <<keyspace, store, subscriber, durable, reqs, conns, nextId, nextConn, trace, clean,
          watches, bootstrapped>>

(***************************************************************************)
(* JavaScript objects as partial functions.                                *)
(***************************************************************************)
EmptyObj == [k \in {} |-> Undefined]
Put(f, k, v) == [x \in (DOMAIN f) \cup {k} |-> IF x = k THEN v ELSE f[x]]
Del(f, k) == [x \in (DOMAIN f) \ {k} |-> f[x]]
\* this.store[key]: undefined for a key the object does not have
Lookup(f, k) == IF k \in DOMAIN f THEN f[k] ELSE Undefined

\* a === b: primitives by value, objects by reference
StrictEq(a, b) == a = b
\* value equality: the same JSON text
ValEq(a, b) == a.json = b.json

\* JSON.stringify(value)
JSONstringify(v) == v.json
\* JSON.parse(text) succeeds
JSONparses(text) == text \in JsonPrimTexts \cup JsonStructTexts
\* JSON.parse(text): a primitive, or a fresh object
JSONparse(text) == Val(IF text \in JsonStructTexts THEN "dec" ELSE "prim", text)

\* One element of the arguments array through MessageModel.encode: the
\* JSON data type writes undefined as null inside an array.
EncodeArg(v) == Val("wire", IF v = Undefined THEN "null" ELSE JSONstringify(v))
\* ... and back through MessageModel.decode
DecodeArg(w) == JSONparse(w.json)

keyConfig(i) == <<"config", keyspace[i]>>
\* keySpaceChannel, if it left the keyspace out of the channel's name
keySpaceChannel_Shared(i, channel) == <<channel, "">>
keySpaceChannel(i, channel) == <<channel, keyspace[i]>>
uniqId(i) == i

(***************************************************************************)
(* The record of one step: the reply or the message the step handled, if   *)
(* it handled one, then every message it published and every event it      *)
(* emitted, in the order of the code.                                      *)
(***************************************************************************)
NoChan == <<"", "">>
Log(kind, i, name, chan, from, args) ==
  [kind |-> kind, inst |-> i, name |-> name, chan |-> chan, from |-> from, args |-> args]

Replied(r) ==
  Log(IF r.err THEN "failure" ELSE "reply", r.inst, r.op, NoChan, "",
      <<r.key, r.value, r.previous>>)
Received(i, message) ==
  Log("message", i, "message", message.channel, message.sender, message.args)
Published(i, channel, args) == Log("publish", i, "publish", channel, uniqId(i), args)
Emit(i, name, args) == Log("emit", i, name, NoChan, "", args)
\* what a call of get returned
Returned(i, key, defaultValue, value) ==
  Log("return", i, "get", NoChan, "", <<key, defaultValue, value>>)

IsEmit(e) == e.kind = "emit"
IsPublish(e) == e.kind = "publish"
Emits(t) == SelectSeq(t, IsEmit)
Publishes(t) == SelectSeq(t, IsPublish)

\* 'error' has a listener of the user (example/simple.js registers one)
emitError(i) == <<Emit(i, "error", <<>>)>>
emitUpdated(i) == <<Emit(i, "updated", <<>>)>>
emitCleared(i, key) == <<Emit(i, "cleared", <<key>>)>> \o emitUpdated(i)
\* emitSet, if it did not call emitUpdated
emitSet_NoUpdated(i, key, value, previousValue) ==
  <<Emit(i, "set", <<key, value, previousValue>>)>>

emitSet(i, key, value, previousValue) ==
  <<Emit(i, "set", <<key, value, previousValue>>)>> \o emitUpdated(i)

\* The connections the server hands a message on `channel` to: those
\* subscribed to it (startMonitor subscribes a connection to the two
\* channels of its instance) whose QUIT it has not processed.
Subscribed(c, channel) ==
  /\ c.quit # "done"
  /\ channel \in { keySpaceChannel(c.inst, ChannelConfigSet),
                   keySpaceChannel(c.inst, ChannelConfigClear) }

Message(i, channel, args) == [channel |-> channel, sender |-> uniqId(i), args |-> args]

\* publish, if the message went to a channel nobody is subscribed to
publish_ToNobody(i, channel, args) == conns' = conns

\* cli.publish(channel, MessageModel.encode({sender, arguments}))
publish(i, channel, args) ==
  conns' = { IF Subscribed(c, channel)
               THEN [c EXCEPT !.inbox = Append(@, Message(i, channel, args))]
               ELSE c : c \in conns }

\* instance j has an open subscriber connection
Listening(j) == \E c \in conns : c.inst = j /\ c.id = subscriber[j] /\ c.quit = "no"
\* every instance of the namespace of i has one
AllListening(i) == \A j \in Inst : keyspace[j] = keyspace[i] => Listening(j)

(***************************************************************************)
(* Requests to the redis server. Each travels on a client of its own       *)
(* (getClient), with the callback the code passes.                         *)
(***************************************************************************)
Req(id, i, op, key, value, previous, cb) ==
  [id |-> id, inst |-> i, op |-> op, key |-> key, value |-> value,
   previous |-> previous, cb |-> cb, phase |-> "sent", err |-> FALSE,
   hash |-> EmptyObj]

PullInFlight == \E r \in reqs : r.op = "hgetall"

Namespaces == {"global", "other"}
\* what the hash of the namespace may hold when the instances are constructed
InitHashes == { EmptyObj, [k \in Keys |-> IF k = "x" THEN "[1,2]" ELSE NotJson] }

\* constructor: this.pull(() => this.emit('ready'))
Init ==
  /\ keyspace = [i \in Inst |-> "global"]
  /\ store = [i \in Inst |-> EmptyObj]
  /\ subscriber = [i \in Inst |-> 0]
  /\ \E h \in InitHashes :
        durable = [kc \in {<<"config", n>> : n \in Namespaces} |->
                     IF kc = <<"config", "global">> THEN h ELSE EmptyObj]
  /\ reqs = { Req(0, i, "hgetall", "", Undefined, Undefined, "ready") : i \in Inst }
  /\ conns = {}
  /\ nextId = 1
  /\ nextConn = 1
  /\ trace = <<>>
  /\ clean = TRUE
  /\ watches = <<>>
  /\ bootstrapped = {}

(***************************************************************************)
(* The server processes a request: it answers, or it fails.                *)
(***************************************************************************)
ServerReply(r) ==
  /\ r.phase = "sent"
  /\ LET kc == keyConfig(r.inst) IN
       /\ durable' = CASE r.op = "hset" -> [durable EXCEPT ![kc] = Put(@, r.key, JSONstringify(r.value))]
                        [] r.op = "hdel" -> [durable EXCEPT ![kc] = Del(@, r.key)]
                        [] OTHER -> durable
       /\ reqs' = (reqs \ {r}) \cup
            {[r EXCEPT !.phase = "replied",
                       !.hash = IF r.op = "hgetall" THEN durable[kc] ELSE EmptyObj]}
  /\ trace' = <<>>
  /\ UNCHANGED <<keyspace, store, subscriber, conns, nextId, nextConn, clean, watches, bootstrapped>>

ServerError(r) ==
  /\ r.phase = "sent"
  /\ reqs' = (reqs \ {r}) \cup {[r EXCEPT !.phase = "replied", !.err = TRUE]}
  /\ trace' = <<>>
  /\ clean' = FALSE
  /\ UNCHANGED <<keyspace, store, subscriber, durable, conns, nextId, nextConn, watches, bootstrapped>>

(***************************************************************************)
(* Registry.pull                                                           *)
(***************************************************************************)
applyEncodedKeyValue(s, key, value) ==
  IF JSONparses(value) THEN Put(s, key, JSONparse(value)) ELSE s

RECURSIVE ApplyHash(_, _, _)
\* Object.keys(hash).forEach(key => this.applyEncodedKeyValue(key, hash[key]))
ApplyHash(s, hash, keys) ==
  IF keys = {} THEN s
  ELSE LET key == CHOOSE k \in keys : TRUE IN
       ApplyHash(applyEncodedKeyValue(s, key, hash[key]), hash, keys \ {key})

pull(i, cb) ==
  /\ store' = [store EXCEPT ![i] = EmptyObj]
  /\ reqs' = reqs \cup {Req(nextId, i, "hgetall", "", Undefined, Undefined, cb)}
  /\ nextId' = nextId + 1
  /\ trace' = <<>>
  /\ clean' = FALSE
  /\ UNCHANGED <<keyspace, subscriber, durable, conns, nextConn, watches, bootstrapped>>

\* the callback of hgetall, if it did not return after the error
pullDone_NoReturn(r) ==
  /\ r.op = "hgetall" /\ r.phase = "replied"
  /\ reqs' = reqs \ {r}
  /\ store' = [store EXCEPT ![r.inst] = ApplyHash(@, r.hash, DOMAIN r.hash)]
  /\ trace' = <<Replied(r)>> \o (IF r.err THEN emitError(r.inst) ELSE <<>>) \o
              emitUpdated(r.inst) \o
              (CASE r.cb = "ready" -> <<Emit(r.inst, "ready", <<>>)>>
                 [] r.cb = "user" -> <<Emit(r.inst, "onSuccess", <<>>)>>
                 [] OTHER -> <<>>)
  /\ bootstrapped' = IF r.err THEN bootstrapped ELSE bootstrapped \cup {r.inst}
  /\ UNCHANGED <<keyspace, subscriber, durable, conns, nextId, nextConn, clean, watches>>

\* the callback of hgetall
pullDone(r) ==
  /\ r.op = "hgetall" /\ r.phase = "replied"
  /\ reqs' = reqs \ {r}
  /\ IF r.err
       THEN /\ trace' = <<Replied(r)>> \o emitError(r.inst)
            /\ store' = store
       ELSE /\ store' = [store EXCEPT ![r.inst] = ApplyHash(@, r.hash, DOMAIN r.hash)]
            /\ trace' = <<Replied(r)>> \o emitUpdated(r.inst) \o
                  (CASE r.cb = "ready" -> <<Emit(r.inst, "ready", <<>>)>>
                     [] r.cb = "user" -> <<Emit(r.inst, "onSuccess", <<>>)>>
                     [] OTHER -> <<>>)
  /\ bootstrapped' = IF r.err THEN bootstrapped ELSE bootstrapped \cup {r.inst}
  /\ UNCHANGED <<keyspace, subscriber, durable, conns, nextId, nextConn, clean, watches>>

(***************************************************************************)
(* Registry.get                                                            *)
(***************************************************************************)
\* get, if it were `return this.store[key] || defaultValue`
get_OrDefault(i, key, defaultValue) ==
  IF key \notin DOMAIN store[i] \/ store[i][key] \in {Undefined, Null, Zero}
    THEN defaultValue ELSE store[i][key]

get(i, key, defaultValue) ==
  IF key \notin DOMAIN store[i] THEN defaultValue ELSE store[i][key]

(***************************************************************************)
(* Registry.watch. A handle is the closure of one call: its instance and   *)
(* key, its flag `ended`, and the events its two listeners are attached    *)
(* to; `disposed` is history: the disposer has been invoked.               *)
(***************************************************************************)
eventNameSet == "set"
eventNameClear == "clear"

\* onModified(newValue), called by handle n
onModified(n, newValue) == [watch |-> n, value |-> newValue]

\* listenerSet of handle n: (_key, value, prevVal) => ...
listenerSet(n, args) ==
  IF watches[n].ended THEN <<>>
  ELSE IF watches[n].key = args[1] THEN <<onModified(n, args[2])>> ELSE <<>>

\* listenerClear of handle n: (_key) => ...
listenerClear(n, args) ==
  IF watches[n].ended THEN <<>>
  ELSE IF watches[n].key = args[1] THEN <<onModified(n, Undefined)>> ELSE <<>>

RECURSIVE Listeners(_, _)
\* this.emit(e.name, ...e.args): the listeners that handles n, n+1, ... of
\* the instance attached to the name of the event run, in the order they
\* were attached
Listeners(e, n) ==
  IF n > Len(watches) THEN <<>>
  ELSE (IF watches[n].inst = e.inst /\ e.name \in watches[n].attached
          THEN (IF e.name = eventNameSet THEN listenerSet(n, e.args)
                                         ELSE listenerClear(n, e.args))
          ELSE <<>>) \o Listeners(e, n + 1)

RECURSIVE InvokedBy(_)
\* the invocations of watch callbacks that the events of a step make
InvokedBy(es) ==
  IF es = <<>> THEN <<>> ELSE Listeners(Head(es), 1) \o InvokedBy(Tail(es))

\* ... that the last step made
Invoked == InvokedBy(Emits(trace))

watch(i, key) ==
  /\ watches' = Append(watches, [inst |-> i, key |-> key, ended |-> FALSE,
                                 attached |-> {eventNameSet, eventNameClear},
                                 disposed |-> FALSE])
  /\ trace' = <<>>
  /\ UNCHANGED <<keyspace, store, subscriber, durable, reqs, conns, nextId, nextConn, clean, bootstrapped>>

\* the function watch returned, if it neither set `ended` nor removed the listeners
dispose_KeepsListening(n) ==
  /\ watches' = [watches EXCEPT ![n].disposed = TRUE]
  /\ trace' = <<>>
  /\ UNCHANGED <<keyspace, store, subscriber, durable, reqs, conns, nextId, nextConn, clean, bootstrapped>>

\* the function watch returned to make handle n
dispose(n) ==
  /\ watches' = [watches EXCEPT ![n].ended = TRUE,
                                ![n].attached = @ \ {eventNameSet, eventNameClear},
                                ![n].disposed = TRUE]
  /\ trace' = <<>>
  /\ UNCHANGED <<keyspace, store, subscriber, durable, reqs, conns, nextId, nextConn, clean, bootstrapped>>

(***************************************************************************)
(* Registry.set                                                            *)
(***************************************************************************)
\* set, if the local version were not set first
set_NotLocalFirst(i, key, value) ==
  LET previous == Lookup(store[i], key) IN
  IF StrictEq(previous, value)
    THEN /\ trace' = <<>>
         /\ UNCHANGED <<keyspace, store, subscriber, durable, reqs, conns, nextId, nextConn, clean, watches, bootstrapped>>
    ELSE /\ store' = store
         /\ reqs' = reqs \cup {Req(nextId, i, "hset", key, value, previous, "none")}
         /\ nextId' = nextId + 1
         /\ trace' = <<>>
         /\ clean' = (clean /\ AllListening(i) /\ ~PullInFlight)
         /\ UNCHANGED <<keyspace, subscriber, durable, conns, nextConn, watches, bootstrapped>>

set(i, key, value) ==
  LET previous == Lookup(store[i], key) IN
  IF StrictEq(previous, value)
    THEN /\ trace' = <<>>
         /\ UNCHANGED <<keyspace, store, subscriber, durable, reqs, conns, nextId, nextConn, clean, watches, bootstrapped>>
    ELSE /\ store' = [store EXCEPT ![i] = Put(@, key, value)]
         /\ reqs' = reqs \cup {Req(nextId, i, "hset", key, value, previous, "none")}
         /\ nextId' = nextId + 1
         /\ trace' = <<>>
         /\ clean' = (clean /\ AllListening(i) /\ ~PullInFlight)
         /\ UNCHANGED <<keyspace, subscriber, durable, conns, nextConn, watches, bootstrapped>>

\* the callback of hset, if it sent the hset again after an error
setDone_Retry(r) ==
  /\ r.op = "hset" /\ r.phase = "replied"
  /\ reqs' = IF r.err THEN (reqs \ {r}) \cup {[r EXCEPT !.phase = "sent", !.err = FALSE]}
                      ELSE reqs \ {r}
  /\ publish(r.inst, keySpaceChannel(r.inst, ChannelConfigSet),
             <<r.key, EncodeArg(r.value), EncodeArg(r.previous)>>)
  /\ trace' = <<Replied(r),
                Published(r.inst, keySpaceChannel(r.inst, ChannelConfigSet),
                          <<r.key, EncodeArg(r.value), EncodeArg(r.previous)>>)>> \o
               (IF r.err THEN emitError(r.inst)
                         ELSE emitSet(r.inst, r.key, r.value, r.previous))
  /\ clean' = (clean /\ AllListening(r.inst))
  /\ UNCHANGED <<keyspace, store, subscriber, durable, nextId, nextConn, watches, bootstrapped>>

\* the callback of hset, if it checked the error before it published
setDone_CheckFirst(r) ==
  /\ r.op = "hset" /\ r.phase = "replied"
  /\ reqs' = reqs \ {r}
  /\ IF r.err
       THEN /\ conns' = conns
            /\ trace' = <<Replied(r)>> \o emitError(r.inst)
       ELSE /\ publish(r.inst, keySpaceChannel(r.inst, ChannelConfigSet),
                       <<r.key, EncodeArg(r.value), EncodeArg(r.previous)>>)
            /\ trace' = <<Replied(r),
                          Published(r.inst, keySpaceChannel(r.inst, ChannelConfigSet),
                                    <<r.key, EncodeArg(r.value), EncodeArg(r.previous)>>)>> \o
                        emitSet(r.inst, r.key, r.value, r.previous)
  /\ clean' = (clean /\ AllListening(r.inst))
  /\ UNCHANGED <<keyspace, store, subscriber, durable, nextId, nextConn, watches, bootstrapped>>

\* the callback of hset, if it did not return after the error
setDone_NoReturn(r) ==
  /\ r.op = "hset" /\ r.phase = "replied"
  /\ reqs' = reqs \ {r}
  /\ publish(r.inst, keySpaceChannel(r.inst, ChannelConfigSet),
             <<r.key, EncodeArg(r.value), EncodeArg(r.previous)>>)
  /\ trace' = <<Replied(r),
                Published(r.inst, keySpaceChannel(r.inst, ChannelConfigSet),
                          <<r.key, EncodeArg(r.value), EncodeArg(r.previous)>>)>> \o
               (IF r.err THEN emitError(r.inst) ELSE <<>>) \o
               emitSet(r.inst, r.key, r.value, r.previous)
  /\ clean' = (clean /\ AllListening(r.inst))
  /\ UNCHANGED <<keyspace, store, subscriber, durable, nextId, nextConn, watches, bootstrapped>>

\* the callback of hset, if it stored the value it persisted
setDone_StoreAgain(r) ==
  /\ r.op = "hset" /\ r.phase = "replied"
  /\ reqs' = reqs \ {r}
  /\ publish(r.inst, keySpaceChannel(r.inst, ChannelConfigSet),
             <<r.key, EncodeArg(r.value), EncodeArg(r.previous)>>)
  /\ trace' = <<Replied(r),
                Published(r.inst, keySpaceChannel(r.inst, ChannelConfigSet),
                          <<r.key, EncodeArg(r.value), EncodeArg(r.previous)>>)>> \o
               (IF r.err THEN emitError(r.inst)
                         ELSE emitSet(r.inst, r.key, r.value, r.previous))
  /\ store' = IF r.err THEN store ELSE [store EXCEPT ![r.inst] = Put(@, r.key, r.value)]
  /\ clean' = (clean /\ AllListening(r.inst))
  /\ UNCHANGED <<keyspace, subscriber, durable, nextId, nextConn, watches, bootstrapped>>

\* the callback of hset, if it put the previous value back after an error
setDone_Rollback(r) ==
  /\ r.op = "hset" /\ r.phase = "replied"
  /\ reqs' = reqs \ {r}
  /\ publish(r.inst, keySpaceChannel(r.inst, ChannelConfigSet),
             <<r.key, EncodeArg(r.value), EncodeArg(r.previous)>>)
  /\ trace' = <<Replied(r),
                Published(r.inst, keySpaceChannel(r.inst, ChannelConfigSet),
                          <<r.key, EncodeArg(r.value), EncodeArg(r.previous)>>)>> \o
               (IF r.err THEN emitError(r.inst)
                         ELSE emitSet(r.inst, r.key, r.value, r.previous))
  /\ store' = IF r.err THEN [store EXCEPT ![r.inst] = Put(@, r.key, r.previous)] ELSE store
  /\ clean' = (clean /\ AllListening(r.inst))
  /\ UNCHANGED <<keyspace, subscriber, durable, nextId, nextConn, watches, bootstrapped>>

\* the callback of hset
setDone(r) ==
  /\ r.op = "hset" /\ r.phase = "replied"
  /\ reqs' = reqs \ {r}
  /\ publish(r.inst, keySpaceChannel(r.inst, ChannelConfigSet),
             <<r.key, EncodeArg(r.value), EncodeArg(r.previous)>>)
  /\ trace' = <<Replied(r),
                Published(r.inst, keySpaceChannel(r.inst, ChannelConfigSet),
                          <<r.key, EncodeArg(r.value), EncodeArg(r.previous)>>)>> \o
               (IF r.err THEN emitError(r.inst)
                         ELSE emitSet(r.inst, r.key, r.value, r.previous))
  /\ clean' = (clean /\ AllListening(r.inst))
  /\ UNCHANGED <<keyspace, store, subscriber, durable, nextId, nextConn, watches, bootstrapped>>

(***************************************************************************)
(* Registry.clear                                                          *)
(***************************************************************************)
clear(i, key) ==
  /\ store' = [store EXCEPT ![i] = IF key \in DOMAIN @ THEN Del(@, key) ELSE @]
  /\ reqs' = reqs \cup {Req(nextId, i, "hdel", key, Undefined, Undefined, "none")}
  /\ nextId' = nextId + 1
  /\ trace' = <<>>
  /\ clean' = (clean /\ AllListening(i) /\ ~PullInFlight)
  /\ UNCHANGED <<keyspace, subscriber, durable, conns, nextConn, watches, bootstrapped>>

\* the callback of hdel, if it checked the error before it published
clearDone_CheckFirst(r) ==
  /\ r.op = "hdel" /\ r.phase = "replied"
  /\ reqs' = reqs \ {r}
  /\ IF r.err
       THEN /\ conns' = conns
            /\ trace' = <<Replied(r)>> \o emitError(r.inst)
       ELSE /\ publish(r.inst, keySpaceChannel(r.inst, ChannelConfigClear), <<r.key>>)
            /\ trace' = <<Replied(r),
                          Published(r.inst, keySpaceChannel(r.inst, ChannelConfigClear), <<r.key>>)>> \o
                        emitCleared(r.inst, r.key)
  /\ clean' = (clean /\ AllListening(r.inst))
  /\ UNCHANGED <<keyspace, store, subscriber, durable, nextId, nextConn, watches, bootstrapped>>

\* the callback of hdel
clearDone(r) ==
  /\ r.op = "hdel" /\ r.phase = "replied"
  /\ reqs' = reqs \ {r}
  /\ publish(r.inst, keySpaceChannel(r.inst, ChannelConfigClear), <<r.key>>)
  /\ trace' = <<Replied(r),
                Published(r.inst, keySpaceChannel(r.inst, ChannelConfigClear), <<r.key>>)>> \o
               (IF r.err THEN emitError(r.inst) ELSE emitCleared(r.inst, r.key))
  /\ clean' = (clean /\ AllListening(r.inst))
  /\ UNCHANGED <<keyspace, store, subscriber, durable, nextId, nextConn, watches, bootstrapped>>

(***************************************************************************)
(* Registry.onSubscriberMessage, and the delivery of a message by a        *)
(* subscriber connection.                                                  *)
(***************************************************************************)
\* onSubscriberMessage, if it did not ignore self published messages
onSubscriberMessage_NoSenderCheck(i, channel, message) ==
  LET dArgs == message.args
      keyName == dArgs[1]
  IN
  CASE channel = keySpaceChannel(i, ChannelConfigSet) ->
         LET newValue == DecodeArg(dArgs[2])
             prevLValue == Lookup(store[i], keyName)
         IN /\ store' = [store EXCEPT ![i] = Put(@, keyName, newValue)]
            /\ trace' = <<Received(i, message)>> \o
                        emitSet(i, keyName, newValue, prevLValue)
    [] channel = keySpaceChannel(i, ChannelConfigClear) ->
         /\ store' = [store EXCEPT ![i] = Del(@, keyName)]
         /\ trace' = <<Received(i, message)>> \o emitCleared(i, keyName)
    [] OTHER ->
         /\ store' = store
         /\ trace' = <<Received(i, message)>>

\* onSubscriberMessage, if it reported the previous remote value
onSubscriberMessage_PrevRemote(i, channel, message) ==
  LET dSender == message.sender
      dArgs == message.args
      keyName == dArgs[1]
  IN
  IF dSender = uniqId(i)
    THEN /\ store' = store
         /\ trace' = <<Received(i, message)>>
    ELSE CASE channel = keySpaceChannel(i, ChannelConfigSet) ->
                LET newValue == DecodeArg(dArgs[2])
                    prevRValue == DecodeArg(dArgs[3])
                IN /\ store' = [store EXCEPT ![i] = Put(@, keyName, newValue)]
                   /\ trace' = <<Received(i, message)>> \o
                               emitSet(i, keyName, newValue, prevRValue)
           [] channel = keySpaceChannel(i, ChannelConfigClear) ->
                /\ store' = [store EXCEPT ![i] = Del(@, keyName)]
                /\ trace' = <<Received(i, message)>> \o emitCleared(i, keyName)
           [] OTHER ->
                /\ store' = store
                /\ trace' = <<Received(i, message)>>

\* onSubscriberMessage, if it cleared and notified only for a key it has
onSubscriberMessage_ClearIfPresent(i, channel, message) ==
  LET dSender == message.sender
      dArgs == message.args
      keyName == dArgs[1]
  IN
  IF dSender = uniqId(i)
    THEN /\ store' = store
         /\ trace' = <<Received(i, message)>>
    ELSE CASE channel = keySpaceChannel(i, ChannelConfigSet) ->
                LET newValue == DecodeArg(dArgs[2])
                    prevLValue == Lookup(store[i], keyName)
                IN /\ store' = [store EXCEPT ![i] = Put(@, keyName, newValue)]
                   /\ trace' = <<Received(i, message)>> \o
                               emitSet(i, keyName, newValue, prevLValue)
           [] channel = keySpaceChannel(i, ChannelConfigClear) /\ keyName \in DOMAIN store[i] ->
                /\ store' = [store EXCEPT ![i] = Del(@, keyName)]
                /\ trace' = <<Received(i, message)>> \o emitCleared(i, keyName)
           [] OTHER ->
                /\ store' = store
                /\ trace' = <<Received(i, message)>>

onSubscriberMessage(i, channel, message) ==
  LET dSender == message.sender
      dArgs == message.args
      keyName == dArgs[1]
  IN
  IF dSender = uniqId(i)
    THEN /\ store' = store
         /\ trace' = <<Received(i, message)>>
    ELSE CASE channel = keySpaceChannel(i, ChannelConfigSet) ->
                LET newValue == DecodeArg(dArgs[2])
                    prevLValue == Lookup(store[i], keyName)
                IN /\ store' = [store EXCEPT ![i] = Put(@, keyName, newValue)]
                   /\ trace' = <<Received(i, message)>> \o
                               emitSet(i, keyName, newValue, prevLValue)
           [] channel = keySpaceChannel(i, ChannelConfigClear) ->
                /\ store' = [store EXCEPT ![i] = Del(@, keyName)]
                /\ trace' = <<Received(i, message)>> \o emitCleared(i, keyName)
           [] OTHER ->
                /\ store' = store
                /\ trace' = <<Received(i, message)>>

\* a connection the server has closed and that has nothing left to deliver is gone
Live(cs) == { c \in cs : ~(c.quit = "done" /\ c.inbox = <<>>) }

\* the 'message' event of a subscriber connection
Deliver(c) ==
  /\ c.inbox # <<>>
  /\ conns' = Live((conns \ {c}) \cup {[c EXCEPT !.inbox = Tail(@)]})
  /\ onSubscriberMessage(c.inst, Head(c.inbox).channel, Head(c.inbox))
  /\ UNCHANGED <<keyspace, subscriber, durable, reqs, nextId, nextConn, clean, watches, bootstrapped>>

(***************************************************************************)
(* Registry.startMonitor, Registry.stopMonitor                             *)
(***************************************************************************)
startMonitor(i) ==
  IF subscriber[i] # 0
    THEN /\ trace' = <<>>
         /\ UNCHANGED <<keyspace, store, subscriber, durable, reqs, conns, nextId, nextConn, clean, watches, bootstrapped>>
    ELSE /\ subscriber' = [subscriber EXCEPT ![i] = nextConn]
         /\ conns' = conns \cup {[id |-> nextConn, inst |-> i, quit |-> "no", inbox |-> <<>>]}
         /\ nextConn' = nextConn + 1
         /\ trace' = <<>>
         /\ UNCHANGED <<keyspace, store, durable, reqs, nextId, clean, watches, bootstrapped>>

stopMonitor(i) ==
  IF subscriber[i] = 0
    THEN /\ trace' = <<>>
         /\ UNCHANGED <<keyspace, store, subscriber, durable, reqs, conns, nextId, nextConn, clean, watches, bootstrapped>>
    ELSE /\ conns' = { IF c.id = subscriber[i] THEN [c EXCEPT !.quit = "sent"] ELSE c : c \in conns }
         /\ subscriber' = [subscriber EXCEPT ![i] = 0]
         /\ trace' = <<>>
         /\ clean' = FALSE
         /\ UNCHANGED <<keyspace, store, durable, reqs, nextId, nextConn, watches, bootstrapped>>

\* the server processes the QUIT of a subscriber connection
ServerQuit(c) ==
  /\ c.quit = "sent"
  /\ conns' = Live((conns \ {c}) \cup {[c EXCEPT !.quit = "done"]})
  /\ trace' = <<>>
  /\ UNCHANGED <<keyspace, store, subscriber, durable, reqs, nextId, nextConn, clean, watches, bootstrapped>>

(***************************************************************************)
(* Specifications.                                                         *)
(***************************************************************************)
\* The users call the instances once they are constructed and their first
\* pull has ended (example/simple.js waits for 'ready').
Booted == \A r \in reqs : r.cb # "ready"

\* the calls of the users that start a request, unless they are no-ops
Call ==
  \E i \in Inst :
    \/ \E k \in Keys, v \in Values : set(i, k, v)
    \/ \E k \in Keys : clear(i, k)
    \/ \E cb \in {"none", "user"} : pull(i, cb)

Start == \E i \in Inst : startMonitor(i)
Stop == \E i \in Inst : stopMonitor(i)

\* the steps of the server, of the clients' callbacks and of message delivery
Server == \E r \in reqs : ServerReply(r) \/ ServerError(r)
Callback == \E r \in reqs : pullDone(r) \/ setDone(r) \/ clearDone(r)
Transport == \E c \in conns : Deliver(c) \/ ServerQuit(c)

\* at most `calls` requests started by the users, `cs` connections opened
NextB(calls, cs) ==
  \/ (Booted /\ nextId <= calls /\ Call)
  \/ (Booted /\ nextConn <= cs /\ Start)
  \/ (Booted /\ Stop)
  \/ Server
  \/ Callback
  \/ Transport

Next == NextB(MaxCalls, MaxConns)
Spec == Init /\ [][Next]_vars

\* Every instance monitors before any of them is written to, and none stops
\* (example/simple.js: startMonitor on 'ready', then set).
NextMonitoring ==
  \/ (Booted /\ Start)
  \/ (Booted /\ (\A j \in Inst : Listening(j)) /\ nextId <= MaxCalls /\ Call)
  \/ Server
  \/ Callback
  \/ \E c \in conns : Deliver(c)

SpecMonitoring == Init /\ [][NextMonitoring]_vars

\* Requests are answered, callbacks run and messages are delivered.
NextLive == NextB(MaxCallsLive, MaxConnsLive)
FairSpec ==
  /\ Init /\ [][NextLive]_vars
  /\ WF_vars(Server) /\ WF_vars(Callback) /\ WF_vars(Transport)

\* The users also watch keys and dispose of the handles.
Watch == \E i \in Inst, k \in Keys : watch(i, k)
Dispose == \E n \in 1..Len(watches) : dispose(n)
NextWatch ==
  \/ (Booted /\ Len(watches) < MaxWatches /\ Watch)
  \/ Dispose
  \/ NextB(MaxCallsWatch, MaxConnsWatch)
SpecWatch == Init /\ [][NextWatch]_vars

\* An instance may start to monitor again after it stopped.
NextLifecycle == NextB(MaxCallsLifecycle, MaxConnsLifecycle)
SpecLifecycle == Init /\ [][NextLifecycle]_vars

\* The users only pull and clear, nobody monitors, and an instance calls
\* clear only while it has no pull in flight: no set, clear or message
\* comes between the call of a pull and its callback.
PullInFlightOf(i) == \E r \in reqs : r.op = "hgetall" /\ r.inst = i
NextResync ==
  \/ (Booted /\ nextId <= MaxCallsResync /\ \E i \in Inst, k \in Keys : ~PullInFlightOf(i) /\ clear(i, k))
  \/ (Booted /\ nextId <= MaxCallsResync /\ \E i \in Inst, cb \in {"none", "user"} : pull(i, cb))
  \/ Server
  \/ Callback
SpecResync == Init /\ [][NextResync]_vars

\* The users set keys to null, to 0 and to 1, clear them and read them.
FalsyValues == {Null, Zero}
Defaults == {Undefined, Fallback}

Get ==
  \E i \in Inst, k \in Keys, d \in Defaults :
    /\ trace' = <<Returned(i, k, d, get(i, k, d))>>
    /\ UNCHANGED <<keyspace, store, subscriber, durable, reqs, conns, nextId,
                   nextConn, clean, watches, bootstrapped>>

NextGet ==
  \/ (Booted /\ nextId <= MaxCallsGet
        /\ \E i \in Inst, k \in Keys, v \in FalsyValues \cup {Num1} : set(i, k, v))
  \/ (Booted /\ nextId <= MaxCallsGet /\ \E i \in Inst, k \in Keys : clear(i, k))
  \/ (Booted /\ Get)
  \/ Server
  \/ Callback

SpecGet == Init /\ [][NextGet]_vars

\* Two instances constructed with different keyspaces, on one server.
InitIsolation ==
  /\ keyspace = [i \in Inst |-> IF i = "A" THEN "global" ELSE "other"]
  /\ store = [i \in Inst |-> EmptyObj]
  /\ subscriber = [i \in Inst |-> 0]
  /\ \E h \in InitHashes : durable = [kc \in {<<"config", n>> : n \in Namespaces} |-> h]
  /\ reqs = { Req(0, i, "hgetall", "", Undefined, Undefined, "ready") : i \in Inst }
  /\ conns = {}
  /\ nextId = 1
  /\ nextConn = 1
  /\ trace = <<>>
  /\ clean = TRUE
  /\ watches = <<>>
  /\ bootstrapped = {}

NextIsolation == NextB(MaxCallsIsolation, MaxConnsIsolation)
SpecIsolation == InitIsolation /\ [][NextIsolation]_vars

\* One instance writes, and only while one of its pulls is in flight; the
\* instances pull; the server answers every request.
Writer == "A"

NextOverlap ==
  \/ (Booted /\ nextId <= MaxCallsOverlap /\ \E i \in Inst, cb \in {"none", "user"} : pull(i, cb))
  \/ (Booted /\ nextId <= MaxCallsOverlap /\ PullInFlightOf(Writer)
        /\ \E k \in Keys, v \in Values : set(Writer, k, v))
  \/ \E r \in reqs : ServerReply(r)
  \/ \E r \in reqs : pullDone(r) \/ setDone(r)

SpecOverlap == Init /\ [][NextOverlap]_vars


(***************************************************************************)
(* The claims.                                                             *)
(***************************************************************************)
\* the step of `trace` handled the reply (ok or not) to a request `op`
Handled(op) ==
  /\ trace # <<>>
  /\ trace[1].kind \in {"reply", "failure"}
  /\ trace[1].name = op

\* the step of `trace` handled a message on a channel `action` of the
\* instance's namespace that another instance sent
HandledInbound(action) ==
  /\ trace # <<>>
  /\ trace[1].kind = "message"
  /\ trace[1].chan = keySpaceChannel(trace[1].inst, action)
  /\ trace[1].from # uniqId(trace[1].inst)

\* nothing is in flight: no request, no message
Quiescent == reqs = {} /\ \A c \in conns : c.inbox = <<>>

\* C1: when a subscriber connection of an instance delivers a message, on
\* either channel, whose sender is the instance itself, no local store
\* changes and no event is emitted, whatever key and value it carries.
C1_SelfEchoDiscarded ==
  [][\A c \in conns :
       (Deliver(c) /\ Head(c.inbox).sender = uniqId(c.inst))
         => (store' = store /\ Emits(trace') = <<>>)]_vars

\* an instance has just been handed a message it published itself
C1_Witness ==
  /\ trace # <<>>
  /\ trace[1].kind = "message"
  /\ trace[1].from = uniqId(trace[1].inst)
  /\ trace[1].chan = keySpaceChannel(trace[1].inst, ChannelConfigSet)

\* C2 (as claimed): when every instance of the namespace monitored whenever
\* a set or clear was called and completed, no request failed and no pull
\* was called, then once nothing is in flight all the local stores of the
\* namespace hold the same value, or none, for every key.
C2_MirrorsConverge ==
  (clean /\ Quiescent) =>
    \A i, j \in Inst : keyspace[i] = keyspace[j] =>
      \A k \in Keys : ValEq(get(i, k, Undefined), get(j, k, Undefined))

\* C3: under fair scheduling, when instance i has a set of key k to v in
\* flight that is the only write of k, and instance j of the same namespace
\* monitors, then j comes to hold v for k, unless j stops monitoring or
\* another write of k is started.
HsetInFlight(i, k, v) ==
  \E r \in reqs : r.op = "hset" /\ r.inst = i /\ r.key = k /\ r.value = v
IsWriteOf(r, i, k, v) == r.op = "hset" /\ r.inst = i /\ r.key = k /\ r.value = v
\* a write of key k other than one set of k to v by i is in flight, as a
\* request or as a message
OtherWrite(i, k, v) ==
  \/ \E r \in reqs : r.op \in {"hset", "hdel"} /\ r.key = k /\ ~IsWriteOf(r, i, k, v)
  \/ \E r1, r2 \in reqs : r1 # r2 /\ IsWriteOf(r1, i, k, v) /\ IsWriteOf(r2, i, k, v)
  \/ \E c \in conns : \E n \in 1..Len(c.inbox) :
       /\ c.inbox[n].args[1] = k
       /\ \/ HsetInFlight(i, k, v)
          \/ c.inbox[n].sender # uniqId(i)
          \/ c.inbox[n].channel # keySpaceChannel(i, ChannelConfigSet)
          \/ c.inbox[n].args[2] # EncodeArg(v)
C3_SingleWriteReachesPeer ==
  \A i, j \in Inst : \A k \in Keys : \A v \in Values :
    (i # j) =>
      ( ( /\ HsetInFlight(i, k, v)
          /\ ~OtherWrite(i, k, v)
          /\ keyspace[i] = keyspace[j]
          /\ Listening(j) )
        ~> ( \/ ValEq(get(j, k, Undefined), v)
             \/ ~Listening(j)
             \/ OtherWrite(i, k, v) ) )

\* instance j has just applied a set that i published, and holds its value
C3_Witness ==
  /\ HandledInbound(ChannelConfigSet)
  /\ trace[1].args[1] \in DOMAIN store[trace[1].inst]
  /\ ValEq(store[trace[1].inst][trace[1].args[1]], trace[1].args[2])
  /\ Listening(trace[1].inst)

\* C4: when set(key, value) is called with a value other than the one the
\* local store holds for key, the local store holds value for key when the
\* call returns, while the request to persist it is only sent; get(key)
\* returns value then.
C4_OptimisticWrite ==
  [][\A i \in Inst : \A k \in Keys : \A v \in Values :
       (set(i, k, v) /\ ~ValEq(Lookup(store[i], k), v))
         => /\ get(i, k, Undefined)' = v
            /\ \E r \in reqs' \ reqs :
                 /\ IsWriteOf(r, i, k, v)
                 /\ r.phase = "sent"]_vars

\* a set is sent and not yet processed, and get returns its value
C4_Witness ==
  \E r \in reqs :
    /\ r.op = "hset" /\ r.phase = "sent"
    /\ get(r.inst, r.key, Undefined) = r.value
    /\ r.key \notin DOMAIN durable[keyConfig(r.inst)]

\* C5 (as claimed): set(key, v) with the local store holding for key a value
\* equal to v by value starts no request, publishes and emits nothing and
\* leaves the local store unchanged.
C5_NoOpSet ==
  [][\A i \in Inst : \A k \in Keys : \A v \in Values :
       (set(i, k, v) /\ ValEq(Lookup(store[i], k), v))
         => (reqs' = reqs /\ store' = store /\ conns' = conns /\ trace' = <<>>)]_vars

\* C6: the step that handles the reply to an hset, successful or failed,
\* publishes exactly one message, on the set channel of the namespace, with
\* the arguments [key, new value, previous value]; it publishes it before it
\* emits anything, and every connection subscribed to the channel gets it.
C6_BroadcastOnCompletion ==
  Handled("hset") =>
    LET i == trace[1].inst
        channel == keySpaceChannel(i, ChannelConfigSet)
        args == <<trace[1].args[1], EncodeArg(trace[1].args[2]), EncodeArg(trace[1].args[3])>>
    IN /\ Len(trace) >= 3
       /\ trace[2] = Published(i, channel, args)
       /\ Len(Publishes(trace)) = 1
       /\ \A n \in 3..Len(trace) : IsEmit(trace[n])
       /\ \A c \in conns : Subscribed(c, channel) =>
            /\ c.inbox # <<>>
            /\ c.inbox[Len(c.inbox)] = Message(i, channel, args)

\* a failed hset whose value another instance is about to be handed, while
\* the hash does not hold it
C6_Witness ==
  /\ Handled("hset")
  /\ trace[1].kind = "failure"
  /\ \E c \in conns :
       /\ c.inst # trace[1].inst
       /\ c.inbox # <<>>
       /\ c.inbox[Len(c.inbox)].args[2] = EncodeArg(trace[1].args[2])
  /\ trace[1].args[1] \notin DOMAIN durable[keyConfig(trace[1].inst)]

\* C7: a set that is no no-op records as previous value what the local
\* store held for the key when set was called (undefined for none); when
\* its hset fails the step emits one 'error' and nothing else, and when it
\* succeeds the step emits one 'set' with the key, the value and that
\* previous value, then 'updated'.
C7_SetOutcome ==
  [][/\ \A i \in Inst : \A k \in Keys : \A v \in Values :
          (set(i, k, v) /\ ~StrictEq(Lookup(store[i], k), v))
            => \E r \in reqs' \ reqs :
                 IsWriteOf(r, i, k, v) /\ r.previous = Lookup(store[i], k)
     /\ \A r \in reqs :
          setDone(r) =>
            Emits(trace') = IF r.err THEN emitError(r.inst)
                            ELSE emitSet(r.inst, r.key, r.value, r.previous)]_vars

\* a failed set of a key the instance had a value for: one 'error', no 'set'
C7_Witness ==
  /\ Handled("hset")
  /\ trace[1].kind = "failure"
  /\ trace[1].args[3] # Undefined
  /\ Emits(trace) = emitError(trace[1].inst)

\* C8: when an instance calls set(k, v2) while its set(k, v1) of another
\* value is in flight, its local store holds v2 for k after the call, and
\* the callback of either hset, in whatever order they run, leaves what the
\* local store holds for k as it is.
C8_MirrorKeepsLastCall ==
  [][/\ \A i \in Inst : \A k \in Keys : \A v2 \in Values :
          (set(i, k, v2) /\ \E r1 \in reqs : r1.op = "hset" /\ r1.inst = i
                                   /\ r1.key = k /\ ~ValEq(r1.value, v2))
            => Lookup(store'[i], k) = v2
     /\ \A r \in reqs :
          setDone(r) => Lookup(store'[r.inst], r.key) = Lookup(store[r.inst], r.key)]_vars

\* The race: set(k, v1) then set(k, v2) by an instance, nobody monitoring;
\* the hset of v1 was processed and answered last, so the hash holds v1, the
\* last message published for k carries v1, and the local store holds v2.
C8_Witness ==
  /\ Handled("hset")
  /\ trace[1].kind = "reply"
  /\ LET i == trace[1].inst
         k == trace[1].args[1]
         v1 == trace[1].args[2]
     IN /\ reqs = {}
        /\ nextId = 3
        /\ nextConn = 1
        /\ k \in DOMAIN store[i]
        /\ store[i][k] \in Values
        /\ ~ValEq(store[i][k], v1)
        /\ k \in DOMAIN durable[keyConfig(i)]
        /\ durable[keyConfig(i)][k] = JSONstringify(v1)
        /\ trace[2].args[2] = EncodeArg(v1)

\* C9: when a subscriber connection hands an instance a message of another
\* sender on the set channel of its namespace, the local store of the
\* instance maps the message's key to the message's new value, whatever it
\* held, nothing else changes in any local store, and the instance emits one
\* 'set' with the key, the new value and the value its own store held for
\* the key before, then 'updated'.
C9_InboundSet ==
  [][\A c \in conns :
       LET i == c.inst
           m == Head(c.inbox)
       IN (Deliver(c) /\ m.sender # uniqId(i)
             /\ m.channel = keySpaceChannel(i, ChannelConfigSet))
            => /\ store' = [store EXCEPT ![i] = Put(@, m.args[1], DecodeArg(m.args[2]))]
               /\ Emits(trace') = emitSet(i, m.args[1], DecodeArg(m.args[2]),
                                          Lookup(store[i], m.args[1]))]_vars

\* an inbound set reported with a local previous value that is a value and
\* is not the previous value the message carries
C9_Witness ==
  /\ HandledInbound(ChannelConfigSet)
  /\ Len(trace) >= 2
  /\ trace[2].name = "set"
  /\ trace[2].args[3] # Undefined
  /\ ~ValEq(trace[2].args[3], trace[1].args[3])
  /\ ~ValEq(trace[2].args[3], trace[2].args[2])

\* C10: when a subscriber connection hands an instance a message of another
\* sender on the clear channel of its namespace, the local store of the
\* instance loses the message's key if it had it, nothing else changes in
\* any local store, and the instance emits one 'cleared' with the key, then
\* 'updated', whether it had the key or not.
C10_InboundClear ==
  [][\A c \in conns :
       LET i == c.inst
           m == Head(c.inbox)
       IN (Deliver(c) /\ m.sender # uniqId(i)
             /\ m.channel = keySpaceChannel(i, ChannelConfigClear))
            => /\ store' = [store EXCEPT ![i] = Del(@, m.args[1])]
               /\ m.args[1] \notin DOMAIN store'[i]
               /\ Emits(trace') = emitCleared(i, m.args[1])]_vars

\* an inbound clear of a key the instance does not hold while it holds
\* another key
C10_Witness ==
  /\ HandledInbound(ChannelConfigClear)
  /\ Emits(trace) = emitCleared(trace[1].inst, trace[1].args[1])
  /\ trace[1].args[1] \notin DOMAIN store[trace[1].inst]
  /\ DOMAIN store[trace[1].inst] # {}

\* C11: clear(key), for a key the local store has or not, leaves the local
\* store without the key when it returns, so that get returns the default,
\* and sends one hdel for the key; the step that handles the reply to it
\* publishes one message [key] on the clear channel of the namespace, handed
\* to every connection subscribed to it, and then emits 'error' alone when
\* the hdel failed, 'cleared' with the key and 'updated' when it succeeded.
C11_LocalClear ==
  [][/\ \A i \in Inst : \A k \in Keys :
          clear(i, k)
            => /\ k \notin DOMAIN store'[i]
               /\ get(i, k, Num2)' = Num2
               /\ \A k2 \in Keys \ {k} : Lookup(store'[i], k2) = Lookup(store[i], k2)
               /\ \E r \in reqs' :
                    /\ reqs' \ reqs = {r}
                    /\ r.op = "hdel" /\ r.inst = i /\ r.key = k /\ r.phase = "sent"
     /\ \A r \in reqs :
          clearDone(r)
            => LET channel == keySpaceChannel(r.inst, ChannelConfigClear) IN
               /\ trace' = <<Replied(r), Published(r.inst, channel, <<r.key>>)>> \o
                           (IF r.err THEN emitError(r.inst)
                                     ELSE emitCleared(r.inst, r.key))
               /\ \A c \in conns' : Subscribed(c, channel) =>
                    /\ c.inbox # <<>>
                    /\ c.inbox[Len(c.inbox)] = Message(r.inst, channel, <<r.key>>)
               /\ store' = store]_vars

\* set(k, 1) then clear(k) by an instance nobody sends messages to: the
\* clear has completed and emitted 'cleared' with k, get(k) returns the
\* default, and the hset of the set is still in flight
C11_Witness ==
  /\ Handled("hdel")
  /\ trace[1].kind = "reply"
  /\ nextConn = 1
  /\ LET i == trace[1].inst
         k == trace[1].args[1]
     IN /\ Emits(trace) = emitCleared(i, k)
        /\ get(i, k, Num2) = Num2
        /\ \E r \in reqs : IsWriteOf(r, i, k, Num1)

\* C12 (as claimed): once stopMonitor has returned on an instance and until
\* it calls startMonitor again, no message a subscriber connection hands to
\* it changes its local store or makes it emit an event; its own set and
\* clear still change its local store, and the replies to requests in
\* flight are still handled and their messages published.
C12_StoppedHearsNothing ==
  [][/\ \A c \in conns :
          (Deliver(c) /\ subscriber[c.inst] = 0)
            => (store' = store /\ Emits(trace') = <<>>)
     /\ \A i \in Inst : subscriber[i] = 0 =>
          /\ \A k \in Keys : \A v \in Values :
               (set(i, k, v) /\ ~StrictEq(Lookup(store[i], k), v)) => get(i, k, Undefined)' = v
          /\ \A k \in Keys : clear(i, k) => k \notin DOMAIN store'[i]
     /\ \A r \in reqs :
          (subscriber[r.inst] = 0 /\ (setDone(r) \/ clearDone(r)))
            => Len(Publishes(trace')) = 1]_vars

\* C13 (as claimed): whatever startMonitor and stopMonitor calls were made,
\* at most one subscriber connection can hand messages to an instance;
\* startMonitor on an instance that monitors and stopMonitor on one that
\* does not change nothing; and the connection of an instance that monitors
\* is subscribed to the set and the clear channel of its namespace.
C13_OneSubscriberConnection ==
  [][/\ \A i \in Inst : Cardinality({c \in conns' : c.inst = i}) <= 1
     /\ \A i \in Inst :
          ((startMonitor(i) /\ subscriber[i] # 0) \/ (stopMonitor(i) /\ subscriber[i] = 0))
            => (conns' = conns /\ subscriber' = subscriber /\ nextConn' = nextConn)
     /\ \A i \in Inst : subscriber'[i] # 0 =>
          \E c \in conns' :
            /\ c.id = subscriber'[i] /\ c.inst = i
            /\ Subscribed(c, keySpaceChannel(i, ChannelConfigSet))
            /\ Subscribed(c, keySpaceChannel(i, ChannelConfigClear))]_vars

\* the events named `name` that the last step emitted for handle n: those of
\* its instance about its key
EventsFor(n, name) ==
  SelectSeq(Emits(trace),
            LAMBDA e : e.name = name /\ e.inst = watches[n].inst /\ e.args[1] = watches[n].key)

\* the invocations of the callback of handle n that the last step made
InvokedOf(n) == SelectSeq(Invoked, LAMBDA call : call.watch = n)

\* C14: no step, be it the handling of the reply to a set or clear sent
\* before or after the disposal or the handling of a message, invokes the
\* callback of a handle whose disposer has been invoked.
C14_DisposedNeverFires ==
  \A n \in 1..Len(watches) : watches[n].disposed => InvokedOf(n) = <<>>

\* a step has emitted 'set' for the key of a handle of the instance whose
\* disposer had been invoked
C14_Witness ==
  \E n \in 1..Len(watches) :
    /\ watches[n].disposed
    /\ EventsFor(n, "set") # <<>>

\* what the callback of handle n is to be invoked with by the last step: the
\* new value of every 'set' it emitted for the key, no value for every
\* 'cleared' it emitted for the key (a step emits at most one of them)
Notified(n) ==
  [m \in 1..Len(EventsFor(n, "set")) |-> onModified(n, EventsFor(n, "set")[m].args[2])] \o
  [m \in 1..Len(EventsFor(n, "cleared")) |-> onModified(n, Undefined)]

\* C15 (as claimed): a step invokes the callback of a handle that is not
\* disposed of once with the new value for every 'set' it emits for the key
\* of the handle, once with no value for every 'cleared' it emits for that
\* key, and not at all for the events of another key.
C15_WatchFires ==
  \A n \in 1..Len(watches) : ~watches[n].disposed => InvokedOf(n) = Notified(n)

\* C16 (as claimed): the disposer of a handle leaves the other handles as
\* they are, and when a handle of the same instance and key has been
\* disposed of, a step still invokes the callback of a handle that has not
\* once for every 'set' and every 'cleared' it emits for the key.
C16_IndependentWatches ==
  [][/\ \A m \in 1..Len(watches) :
          dispose(m) => \A n \in 1..Len(watches) \ {m} : watches'[n] = watches[n]
     /\ \A n, m \in 1..Len(watches') :
          ( /\ n # m
            /\ watches'[m].inst = watches'[n].inst
            /\ watches'[m].key = watches'[n].key
            /\ watches'[m].disposed
            /\ ~watches'[n].disposed )
            => InvokedOf(n)' = Notified(n)']_vars

\* the fields of a hash whose text parses, each with its parsed value
Parsed(hash) ==
  [k \in {f \in DOMAIN hash : JSONparses(hash[f])} |-> JSONparse(hash[k])]

\* C17 (as claimed): when the callback of a successful hgetall runs and no
\* set, clear or message came since the pull was called, the local store is
\* afterwards exactly the fields of the fetched hash whose text parses, each
\* with its parsed value: a field that does not parse is absent and emits
\* no 'error', and a key that is not in the hash is absent.
C17_BootstrapRoundTrip ==
  [][\A r \in reqs :
       (pullDone(r) /\ ~r.err)
         => /\ store'[r.inst] = Parsed(r.hash)
            /\ \A n \in 1..Len(trace') : trace'[n].name # "error"]_vars

\* what the callback of a successful hgetall emits and calls: 'updated',
\* then the completion callback the pull was given, if any (the one the
\* constructor gives emits 'ready')
PullSuccess(r) ==
  emitUpdated(r.inst) \o
  (CASE r.cb = "ready" -> <<Emit(r.inst, "ready", <<>>)>>
     [] r.cb = "user" -> <<Emit(r.inst, "onSuccess", <<>>)>>
     [] OTHER -> <<>>)

\* C18 (as claimed): the callback of a failed hgetall emits 'error' and
\* nothing else and calls no completion callback, and the local store is
\* empty after it; the callback of a successful one emits one 'updated' and
\* then calls the completion callback once, if there is one.
C18_PullFailureLeavesEmpty ==
  [][\A r \in reqs :
       pullDone(r)
         => IF r.err THEN /\ Emits(trace') = emitError(r.inst)
                          /\ store'[r.inst] = EmptyObj
                     ELSE Emits(trace') = PullSuccess(r)]_vars

\* C18 (amended): pull empties the local store when it is called; the
\* callback of a failed hgetall emits 'error' and nothing else, calls no
\* completion callback and leaves every local store as it is, so that the
\* store holds what was written to it since the call and is empty if
\* nothing was; the callback of a successful one emits one 'updated' and
\* then calls the completion callback once, if there is one.
C18_PullFailure ==
  [][/\ \A i \in Inst : \A cb \in {"none", "user"} : pull(i, cb) => store'[i] = EmptyObj
     /\ \A r \in reqs :
          pullDone(r)
            => IF r.err THEN /\ Emits(trace') = emitError(r.inst)
                             /\ store' = store
                        ELSE Emits(trace') = PullSuccess(r)]_vars

\* a pull has failed after a set was called while it was in flight: the
\* local store holds the value of the set
C18_Witness ==
  /\ Handled("hgetall")
  /\ trace[1].kind = "failure"
  /\ Emits(trace) = emitError(trace[1].inst)
  /\ \E k \in DOMAIN store[trace[1].inst] : store[trace[1].inst][k] \in Values

\* instance i has emitted 'error' for a failed request: it has just done so,
\* or the pull of its constructor failed
Failed(i) ==
  \/ trace # <<>> /\ trace[1].kind = "failure" /\ trace[1].inst = i
  \/ Booted /\ i \notin bootstrapped

\* C19: the callback of a failed hgetall, hset or hdel sends no request
\* again and leaves the local stores as they are, so that get serves them;
\* and on an instance that has emitted 'error' for a failed request, set,
\* clear and pull have their effects: set stores the value and sends one
\* hset, clear removes the key and sends one hdel, pull empties the store
\* and sends one hgetall.
C19_NoFailureIsFatal ==
  [][/\ \A r \in reqs :
          (r.err /\ (pullDone(r) \/ setDone(r) \/ clearDone(r)))
            => /\ reqs' = reqs \ {r}
               /\ nextId' = nextId
               /\ store' = store
               /\ Emits(trace') = emitError(r.inst)
     /\ \A i \in Inst : Failed(i) =>
          /\ \A k \in Keys : \A v \in Values :
               (set(i, k, v) /\ ~StrictEq(Lookup(store[i], k), v))
                 => /\ get(i, k, Undefined)' = v
                    /\ \E r \in reqs' : reqs' \ reqs = {r} /\ IsWriteOf(r, i, k, v)
          /\ \A k \in Keys :
               clear(i, k)
                 => /\ k \notin DOMAIN store'[i]
                    /\ \E r \in reqs' :
                         reqs' \ reqs = {r} /\ r.op = "hdel" /\ r.inst = i /\ r.key = k
          /\ \A cb \in {"none", "user"} :
               pull(i, cb)
                 => /\ store'[i] = EmptyObj
                    /\ \E r \in reqs' :
                         reqs' \ reqs = {r} /\ r.op = "hgetall" /\ r.inst = i]_vars

\* an instance whose constructor's pull failed has called set for two keys:
\* one hset has failed, the other has succeeded and the instance has emitted
\* 'set' for it; get returns the value of either set, the hash holds the
\* value of the second only and no request is in flight
C19_Witness ==
  /\ Handled("hset")
  /\ trace[1].kind = "reply"
  /\ nextConn = 1
  /\ nextId = 3
  /\ reqs = {}
  /\ LET i == trace[1].inst
         k == trace[1].args[1]
         v == trace[1].args[2]
     IN /\ i \notin bootstrapped
        /\ Emits(trace) = emitSet(i, k, v, trace[1].args[3])
        /\ get(i, k, Undefined) = v
        /\ DOMAIN durable[keyConfig(i)] = {k}
        /\ durable[keyConfig(i)][k] = JSONstringify(v)
        /\ \E k2 \in DOMAIN store[i] : k2 # k /\ store[i][k2] \in Values

\* the last step of `t` emitted 'ready'
EmitsReady(t) == \E n \in 1..Len(t) : IsEmit(t[n]) /\ t[n].name = "ready"

\* C20 (as claimed): the callback of an hgetall emits 'ready' when it is the
\* first of its instance to succeed, be it the pull of the constructor or a
\* later one, and in no other case: not when the hgetall failed, and not
\* when a pull of the instance has succeeded before.
C20_ReadyAfterFirstBootstrap ==
  [][\A r \in reqs :
       pullDone(r) => (EmitsReady(trace') <=> (~r.err /\ r.inst \notin bootstrapped))]_vars

\* the names of the events a step emitted, in order
EmittedNames(t) == [n \in 1..Len(Emits(t)) |-> Emits(t)[n].name]
\* what is emitted after a pull that was given the callback cb succeeded
AfterPull(cb) ==
  CASE cb = "ready" -> <<"updated", "ready">>
    [] cb = "user" -> <<"updated", "onSuccess">>
    [] OTHER -> <<"updated">>

\* C21: the callback of a successful hgetall emits one 'updated'; the
\* callback of a successful hset emits 'set' and then one 'updated', that of
\* a successful hdel 'cleared' and then one 'updated'; the handling of a
\* message of another sender emits 'set' or 'cleared' and then one
\* 'updated'; the callback of a failed request emits 'error' only, and a set
\* that is a no-op and the handling of a message of the instance itself emit
\* nothing.
C21_UpdatedEvent ==
  [][/\ \A r \in reqs :
          /\ pullDone(r) =>
               EmittedNames(trace') = IF r.err THEN <<"error">> ELSE AfterPull(r.cb)
          /\ setDone(r) =>
               EmittedNames(trace') = IF r.err THEN <<"error">> ELSE <<"set", "updated">>
          /\ clearDone(r) =>
               EmittedNames(trace') = IF r.err THEN <<"error">> ELSE <<"cleared", "updated">>
     /\ \A c \in conns :
          Deliver(c) =>
            EmittedNames(trace') =
              IF Head(c.inbox).sender = uniqId(c.inst) THEN <<>>
              ELSE IF Head(c.inbox).channel = keySpaceChannel(c.inst, ChannelConfigSet)
                     THEN <<"set", "updated">>
                     ELSE <<"cleared", "updated">>
     /\ \A i \in Inst : \A k \in Keys : \A v \in Values :
          (set(i, k, v) /\ StrictEq(Lookup(store[i], k), v)) => trace' = <<>>]_vars

\* an instance has emitted 'set' and then 'updated' for a message of
\* another instance
C21_Witness ==
  /\ HandledInbound(ChannelConfigSet)
  /\ EmittedNames(trace) = <<"set", "updated">>

\* C22: a call of get returns the value the local store holds for the key
\* when the store has the key, null and 0 included, and the default when it
\* has not; it leaves the local stores, the hashes, the requests and the
\* connections as they are and publishes and emits nothing.  So get with a
\* default returns null after set(k, null) and the default after clear(k).
C22_Get ==
  [][/\ Get =>
          LET e == trace'[1] IN
            /\ e.args[1] \in DOMAIN store[e.inst] => e.args[3] = store[e.inst][e.args[1]]
            /\ e.args[1] \notin DOMAIN store[e.inst] => e.args[3] = e.args[2]
            /\ store' = store /\ durable' = durable /\ reqs' = reqs /\ conns' = conns
            /\ Publishes(trace') = <<>> /\ Emits(trace') = <<>>
     /\ \A i \in Inst : \A k \in Keys :
          /\ \A v \in FalsyValues : set(i, k, v) => get(i, k, Fallback)' = v
          /\ clear(i, k) => get(i, k, Fallback)' = Fallback]_vars

\* get with a default has returned null for a key that holds null
C22_Witness ==
  /\ trace # <<>>
  /\ trace[1].kind = "return"
  /\ trace[1].args[2] = Fallback
  /\ trace[1].args[3] = Null
  /\ Lookup(store[trace[1].inst], trace[1].args[1]) = Null

\* the instances of another keyspace than that of i
Foreign(i) == {j \in Inst : keyspace[j] # keyspace[i]}
\* the step emitted nothing on instance j
Silent(j, t) == \A n \in 1..Len(t) : IsEmit(t[n]) => t[n].inst # j

\* C23: for an instance i and the instances of another keyspace: a call of
\* set or clear on i leaves their local stores and every hash as they are
\* and emits nothing on them; the server's processing of an hset or hdel of
\* i leaves the hash of their keyspace and every local store as they are;
\* the callback of an hset or hdel of i leaves their local stores as they
\* are, emits nothing on them and hands no message to their connections;
\* and every message a connection of i delivers was sent by an instance of
\* the keyspace of i.
C23_NamespaceIsolation ==
  [][\A i \in Inst :
       /\ ((\E k \in Keys, v \in Values : set(i, k, v)) \/ (\E k \in Keys : clear(i, k)))
            => /\ durable' = durable
               /\ \A j \in Foreign(i) : store'[j] = store[j] /\ Silent(j, trace')
       /\ \A r \in reqs :
            /\ (r.inst = i /\ r.op \in {"hset", "hdel"} /\ (ServerReply(r) \/ ServerError(r)))
                 => /\ store' = store
                    /\ \A j \in Foreign(i) : durable'[keyConfig(j)] = durable[keyConfig(j)]
            /\ (r.inst = i /\ (setDone(r) \/ clearDone(r)))
                 => \A j \in Foreign(i) :
                      /\ store'[j] = store[j]
                      /\ Silent(j, trace')
                      /\ \A c \in conns : c.inst = j => c \in conns'
       /\ \A c \in conns :
            (c.inst = i /\ Deliver(c))
              => \A j \in Foreign(i) : Head(c.inbox).sender # uniqId(j)]_vars

\* an instance has published a message for a stored value while an instance
\* of another keyspace had an open subscriber connection, which got nothing
C23_Witness ==
  /\ Handled("hset")
  /\ trace[1].kind = "reply"
  /\ Publishes(trace) # <<>>
  /\ \E c \in conns :
       /\ c.inst \in Foreign(trace[1].inst)
       /\ c.quit = "no"
       /\ c.inbox = <<>>
       /\ trace[1].args[1] \notin DOMAIN store[c.inst]
  /\ trace[1].args[1] \in DOMAIN durable[keyConfig(trace[1].inst)]

\* C24: when a step has emitted 'set' with a key and a value on an
\* instance, for the callback of an hset as for a message of another
\* instance, the local store of that instance holds that value (a value of
\* the same JSON text) for the key.
C24_SetReportsMirror ==
  \A n \in 1..Len(trace) :
    (IsEmit(trace[n]) /\ trace[n].name = "set")
      => ValEq(Lookup(store[trace[n].inst], trace[n].args[1]), trace[n].args[2])

\* C25: when an instance has called set only while one of its pulls was in
\* flight, no other instance has written and every request was answered,
\* then once its requests are done its local store holds, for every key the
\* hash holds a JSON text for, a value of that text: for the key of the set,
\* the value of the set.
C25_PullOverlappingSet ==
  (Booted /\ \A r \in reqs : r.inst # Writer)
    => \A k \in DOMAIN durable[keyConfig(Writer)] :
         JSONparses(durable[keyConfig(Writer)][k])
           => /\ k \in DOMAIN store[Writer]
              /\ JSONstringify(store[Writer][k]) = durable[keyConfig(Writer)][k]

\* C26: an instance does not handle the message of another instance twice:
\* when a connection of the instance delivers a message of another sender,
\* the step before was not the handling of that message by the same
\* instance (one call is made, so that one message is published and a
\* message handled again is that message, delivered by a second connection).
C26_AppliedAtMostOnce ==
  [][\A c \in conns :
       (Deliver(c) /\ Head(c.inbox).sender # uniqId(c.inst))
         => ~(trace # <<>> /\ trace[1] = Received(c.inst, Head(c.inbox)))]_vars

\* C27: the callback of an hset or hdel, answered or failed, leaves every
\* local store as it is; and a step that changes the local store of an
\* instance is a call of set, clear or pull on it, the callback of an
\* answered hgetall of it, or the delivery to it of a message of another
\* sender.
C27_CompletionsKeepMirror ==
  [][/\ \A r \in reqs : (setDone(r) \/ clearDone(r)) => store' = store
     /\ \A i \in Inst :
          store'[i] # store[i] =>
            \/ \E k \in Keys, v \in Values : set(i, k, v)
            \/ \E k \in Keys : clear(i, k)
            \/ \E cb \in {"none", "user"} : pull(i, cb)
            \/ \E r \in reqs : r.inst = i /\ ~r.err /\ pullDone(r)
            \/ \E c \in conns :
                 c.inst = i /\ Deliver(c) /\ Head(c.inbox).sender # uniqId(i)]_vars

\* the callback of a failed hset has run, and the local store holds the
\* value of the set for a key the hash does not have
C27_Witness ==
  /\ Handled("hset")
  /\ trace[1].kind = "failure"
  /\ conns = {}
  /\ trace[1].args[1] \in DOMAIN store[trace[1].inst]
  /\ store[trace[1].inst][trace[1].args[1]] = trace[1].args[2]
  /\ trace[1].args[1] \notin DOMAIN durable[keyConfig(trace[1].inst)]

=============================================================================
